---- MODULE Spec2Model ----
(***************************************************************************)
(* Model of the AO3 metadata scraper: AO3Scraper in src/src/ao3_scraper.py *)
(* and the scraping branch of main() in src/main.py.                       *)
(*                                                                         *)
(* Text is a sequence of one-character strings, so that strip, split,      *)
(* replace, isdigit, int and slicing are computed as Python computes them. *)
(* An optional markup element is a sequence of length 0 (find() returned   *)
(* None) or 1 (the element).  A dict is the sequence of its <<key, value>> *)
(* pairs in insertion order.                                               *)
(***************************************************************************)
EXTENDS Integers, Sequences, FiniteSets, TLC

(***************************************************************************)
(* String literals of the source.                                          *)
(***************************************************************************)
S_Anonymous == <<"A", "n", "o", "n", "y", "m", "o", "u", "s">>
S_NotRated == <<"N", "o", "t", " ", "R", "a", "t", "e", "d">>
S_NoWarnings == <<"N", "o", " ", "A", "r", "c", "h", "i", "v", "e", " ", "W", "a", "r", "n", "i", "n", "g", "s", " ", "A", "p", "p", "l", "y">>
S_NA == <<"N", "/", "A">>
S_English == <<"E", "n", "g", "l", "i", "s", "h">>
S_OneOfOne == <<"1", "/", "1">>
F_MCR == <<"M", "y", " ", "C", "h", "e", "m", "i", "c", "a", "l", " ", "R", "o", "m", "a", "n", "c", "e">>
F_FOB == <<"F", "a", "l", "l", " ", "O", "u", "t", " ", "B", "o", "y">>
F_Sherlock == <<"S", "h", "e", "r", "l", "o", "c", "k">>
F_StarTrek == <<"S", "t", "a", "r", " ", "T", "r", "e", "k">>

\* the fandoms list of main()
fandoms == <<F_MCR, F_FOB, F_Sherlock, F_StarTrek>>

\* AO3Scraper(rate_limit=5.0), search_fandom(fandom, max_pages=3)
RATE_LIMIT == 5
MAIN_MAX_PAGES == 3
SUMMARY_MAX_LENGTH == 200
TAGS_CAP == 10
RELATIONSHIPS_CAP == 5
CHARACTERS_CAP == 10

(***************************************************************************)
(* Python str / list primitives.                                           *)
(***************************************************************************)
\* the whitespace characters str.strip() removes (the ones the model uses)
Whitespace == {" ", "\n"}

RECURSIVE LStrip(_)
LStrip(s) == IF s # <<>> /\ Head(s) \in Whitespace THEN LStrip(Tail(s)) ELSE s

RECURSIVE RStrip(_)
RStrip(s) ==
    IF s # <<>> /\ s[Len(s)] \in Whitespace
    THEN RStrip(SubSeq(s, 1, Len(s) - 1))
    ELSE s

\* element.get_text(strip=True) of an element holding one text node
GetText(e) == RStrip(LStrip(e))

\* s[:n]
Prefix(s, n) == SubSeq(s, 1, IF Len(s) < n THEN Len(s) ELSE n)

\* s.split('/')[-1]: what follows the last '/' (all of s when there is none)
RECURSIVE LastSegment(_)
LastSegment(s) ==
    IF \E i \in 1..Len(s) : s[i] = "/"
    THEN LastSegment(Tail(s))
    ELSE s

\* s.replace(',', '')
RemoveCommas(s) == SelectSeq(s, LAMBDA c : c # ",")

AsciiDigits == {"0", "1", "2", "3", "4", "5", "6", "7", "8", "9"}

\* one-character tokens standing for digits outside ASCII:
\* SUPERSCRIPT_TWO  (U+00B2)  isdigit() is True, int() raises ValueError
\* ARABIC_THREE     (U+0663)  isdigit() is True, int() gives 3
NonDecimalDigits == {"SUPERSCRIPT_TWO"}
ForeignDecimalDigits == {"ARABIC_THREE"}

\* str.isdigit()
IsDigit(s) ==
    /\ s # <<>>
    /\ \A i \in 1..Len(s) :
          s[i] \in AsciiDigits \cup NonDecimalDigits \cup ForeignDecimalDigits

DigitValue(c) ==
    CASE c = "0" -> 0 [] c = "1" -> 1 [] c = "2" -> 2 [] c = "3" -> 3
      [] c = "4" -> 4 [] c = "5" -> 5 [] c = "6" -> 6 [] c = "7" -> 7
      [] c = "8" -> 8 [] c = "9" -> 9 [] c = "ARABIC_THREE" -> 3

\* int(s) raises ValueError (s is known to satisfy isdigit)
IntRaises(s) == \E i \in 1..Len(s) : s[i] \in NonDecimalDigits

\* int(s) for a string of decimal digits
RECURSIVE IntOf(_)
IntOf(s) ==
    IF s = <<>> THEN 0
    ELSE 10 * IntOf(SubSeq(s, 1, Len(s) - 1)) + DigitValue(s[Len(s)])

\* ', '.join(list)
RECURSIVE Join(_)
Join(list) ==
    IF list = <<>> THEN <<>>
    ELSE IF Len(list) = 1 THEN list[1]
    ELSE list[1] \o <<",", " ">> \o Join(Tail(list))

\* a slice elems[:cap + 1]
TextsOf_Mut(elems, cap) ==
    [i \in 1..(IF Len(elems) < cap + 1 THEN Len(elems) ELSE cap + 1) |->
        GetText(elems[i])]

\* [x.get_text(strip=True) for x in elems[:cap]]
TextsOf(elems, cap) ==
    [i \in 1..(IF Len(elems) < cap THEN Len(elems) ELSE cap) |-> GetText(elems[i])]

\* dict operations (insertion-ordered)
HasKey(d, k) == \E i \in 1..Len(d) : d[i][1] = k
DictGet(d, k) == d[CHOOSE i \in 1..Len(d) : d[i][1] = k][2]
\* data[k] = v; d is bound by a quantifier so that it is evaluated once
DictSet(d, k, v) ==
    LET Put(dd) == IF HasKey(dd, k)
                   THEN [i \in 1..Len(dd) |-> IF dd[i][1] = k THEN <<k, v>> ELSE dd[i]]
                   ELSE Append(dd, <<k, v>>)
    IN  CHOOSE r \in {Put(dd) : dd \in {d}} : TRUE
DictKeys(d) == [i \in 1..Len(d) |-> d[i][1]]

(***************************************************************************)
(* AO3Scraper._parse_work_blurb                                            *)
(*                                                                         *)
(* A work element is a record                                              *)
(*   heading       optional h4.heading: [a: optional link]                 *)
(*                 link = [text: chars, href: optional chars]              *)
(*   author, rating, warnings, category, fandoms, summary: optional chars  *)
(*   freeforms, relationships, characters: sequences of chars              *)
(*   stats         optional dl.stats: [language, words, chapters, kudos,   *)
(*                 bookmarks, hits: optional chars]                        *)
(* The result is [ret: optional dict, error: exception name or "none"].    *)
(***************************************************************************)
\* x.get_text(strip=True) if x else default
TextOrDefault(elem, default) ==
    IF elem # <<>> THEN GetText(elem[1]) ELSE default

\* the words / kudos / bookmarks / hits blocks: the text with ',' removed
StatText(elem) == RemoveCommas(GetText(elem[1]))

\* int(text) if text.isdigit() else 0, and 0 when the element is missing
StatValue(elem) ==
    IF elem # <<>>
    THEN IF IsDigit(StatText(elem)) THEN IntOf(StatText(elem)) ELSE 0
    ELSE 0

\* the int() call of a stat block raises
StatRaises(elem) ==
    /\ elem # <<>>
    /\ IsDigit(StatText(elem))
    /\ IntRaises(StatText(elem))

\* the if-stats block
StatsFields(data, stats) ==
    IF stats # <<>>
    THEN LET s == stats[1]
             d1 == DictSet(data, "language", TextOrDefault(s.language, S_English))
             d2 == DictSet(d1, "words", StatValue(s.words))
             d3 == DictSet(d2, "chapters", TextOrDefault(s.chapters, S_OneOfOne))
             d4 == DictSet(d3, "kudos", StatValue(s.kudos))
             d5 == DictSet(d4, "bookmarks", StatValue(s.bookmarks))
         IN  DictSet(d5, "hits", StatValue(s.hits))
    ELSE data

\* the summary block
SummaryField(data, summary) ==
    IF summary # <<>>
    THEN DictSet(data, "summary", Prefix(GetText(summary[1]), SUMMARY_MAX_LENGTH))
    ELSE DictSet(data, "summary", <<>>)

\* the title block found a heading and a link in it
HasTitleLink(work) == work.heading # <<>> /\ work.heading[1].a # <<>>

\* fandom_searched taken from the item's own fandoms heading
HeadFields_ItemFandom(work, fandom) ==
    LET link == work.heading[1].a[1]
        d0 == <<<<"fandom_searched", TextOrDefault(work.fandoms, fandom)>>>>
        d1 == DictSet(d0, "title", GetText(link.text))
        d2 == DictSet(d1, "work_id", LastSegment(link.href[1]))
        d3 == DictSet(d2, "author", TextOrDefault(work.author, S_Anonymous))
        d4 == DictSet(d3, "rating", TextOrDefault(work.rating, S_NotRated))
        d5 == DictSet(d4, "warnings", TextOrDefault(work.warnings, S_NoWarnings))
        d6 == DictSet(d5, "category", TextOrDefault(work.category, S_NA))
        d7 == DictSet(d6, "fandoms", TextOrDefault(work.fandoms, fandom))
        d8 == DictSet(d7, "tags", Join(TextsOf(work.freeforms, TAGS_CAP)))
        d9 == DictSet(d8, "relationships",
                      Join(TextsOf(work.relationships, RELATIONSHIPS_CAP)))
    IN  DictSet(d9, "characters", Join(TextsOf(work.characters, CHARACTERS_CAP)))

\* the fields from 'fandom_searched' to 'characters'
HeadFields(work, fandom) ==
    LET link == work.heading[1].a[1]
        d0 == <<<<"fandom_searched", fandom>>>>
        d1 == DictSet(d0, "title", GetText(link.text))
        d2 == DictSet(d1, "work_id", LastSegment(link.href[1]))
        d3 == DictSet(d2, "author", TextOrDefault(work.author, S_Anonymous))
        d4 == DictSet(d3, "rating", TextOrDefault(work.rating, S_NotRated))
        d5 == DictSet(d4, "warnings", TextOrDefault(work.warnings, S_NoWarnings))
        d6 == DictSet(d5, "category", TextOrDefault(work.category, S_NA))
        d7 == DictSet(d6, "fandoms", TextOrDefault(work.fandoms, fandom))
        d8 == DictSet(d7, "tags", Join(TextsOf(work.freeforms, TAGS_CAP)))
        d9 == DictSet(d8, "relationships",
                      Join(TextsOf(work.relationships, RELATIONSHIPS_CAP)))
    IN  DictSet(d9, "characters", Join(TextsOf(work.characters, CHARACTERS_CAP)))

ParseWorkBlurb(work, fandom) ==
    IF ~HasTitleLink(work)
    THEN [ret |-> <<>>, error |-> "none"]
    ELSE IF work.heading[1].a[1].href = <<>>
    THEN [ret |-> <<>>, error |-> "KeyError"]
    ELSE IF work.stats # <<>> /\ \/ StatRaises(work.stats[1].words)
                                 \/ StatRaises(work.stats[1].kudos)
                                 \/ StatRaises(work.stats[1].bookmarks)
                                 \/ StatRaises(work.stats[1].hits)
    THEN [ret |-> <<>>, error |-> "ValueError"]
    ELSE [ret |-> <<SummaryField(StatsFields(HeadFields(work, fandom), work.stats),
                                 work.summary)>>,
          error |-> "none"]


(***************************************************************************)
(* Bounds of the model.                                                    *)
(***************************************************************************)
NumTerms == 2          \* main() is run over the first NumTerms fandoms
MaxPagesArg == 3       \* a lone search_fandom call gets max_pages in -1..MaxPagesArg
MaxFetchTime == 1      \* session.get takes 0..MaxFetchTime seconds
MaxParseTime == 1      \* parsing a page takes 0..MaxParseTime seconds

(***************************************************************************)
(* State.                                                                  *)
(***************************************************************************)
VARIABLES
    rate_limit,     \* AO3Scraper.rate_limit
    mpc,            \* position of main(): "off", "loop", "call", "save_csv",
                    \* "save_json", "done", "crashed"
    idx,            \* main(): index of the current fandom in fandoms
    all_works,      \* main(): all_works
    calls,          \* the search_fandom calls that returned: [fandom, works,
                    \* failed: the call ended on a failed fetch]
    csv_file,       \* data/ao3_fanfictions.csv: absent or [header, rows]
    csv_outcome,    \* how the save_to_csv call of main() ended: "pending",
                    \* "saved", "no_data" (message printed, normal return),
                    \* "ValueError" (raised out of writerows)
    json_file,      \* data/ao3_fanfictions.json: absent or the dumped list
    spc,            \* position of search_fandom: "idle", "loop", "get",
                    \* "parse", "sleep", "returned"
    fandom_name,    \* search_fandom: fandom_name
    max_pages,      \* search_fandom: max_pages
    page,           \* search_fandom: page
    works,          \* search_fandom: works
    response,       \* search_fandom: the response being processed
    requests,       \* the session.get calls of this search_fandom call
    sleeps,         \* the time.sleep calls of this search_fandom call
    clock,          \* wall-clock time, in seconds
    sent,           \* dispatch instants of the last two requests of the run
    work_element,   \* a lone _parse_work_blurb call: its work element
    parsed          \* a lone _parse_work_blurb call: its result

mainVars == <<mpc, idx, all_works, calls, csv_file, csv_outcome, json_file>>
searchVars == <<spc, fandom_name, max_pages, page, works, response, requests, sleeps>>
timeVars == <<clock, sent>>
extractVars == <<work_element, parsed>>
vars == <<rate_limit, mpc, idx, all_works, calls, csv_file, csv_outcome, json_file,
          spc, fandom_name, max_pages, page, works, response, requests,
          sleeps, clock, sent, work_element, parsed>>

(***************************************************************************)
(* AO3Scraper.search_fandom                                                *)
(***************************************************************************)
\* HTTP statuses a response can carry
Statuses == {200, 304, 404, 503}

\* raise_for_status that lets client errors through
RaiseForStatus_Mut(status) == 500 <= status /\ status < 600

\* response.raise_for_status() raises HTTPError
RaiseForStatus(status) == 400 <= status /\ status < 600

\* what session.get can produce: a RequestException raised by the transport,
\* or a response; only a 200 response carries work items
Outcomes(bodies) ==
    {[error |-> "ConnectionError", status |-> 0, body |-> <<>>]}
    \cup {[error |-> "none", status |-> 200, body |-> b] : b \in bodies}
    \cup {[error |-> "none", status |-> s, body |-> <<>>] : s \in Statuses \ {200}}

\* the try block ends in the except clause
FetchFails(o) == o.error # "none" \/ RaiseForStatus(o.status)

\* a loop that appends work_data without testing it: None (an empty dict
\* here) is appended for a skipped item
RECURSIVE PageRecords_AppendNone(_, _)
PageRecords_AppendNone(items, fandom) ==
    IF items = <<>> THEN <<>>
    ELSE LET r == ParseWorkBlurb(Head(items), fandom)
         IN  <<IF r.ret # <<>> THEN r.ret[1] ELSE <<>>>>
                \o PageRecords_AppendNone(Tail(items), fandom)

\* a loop that an exception of one item ends: the items after it are lost
RECURSIVE PageRecords_Abort(_, _)
PageRecords_Abort(items, fandom) ==
    IF items = <<>> THEN <<>>
    ELSE IF ParseWorkBlurb(Head(items), fandom).error # "none" THEN <<>>
    ELSE ParseWorkBlurb(Head(items), fandom).ret
            \o PageRecords_Abort(Tail(items), fandom)

\* a loop that inserts each record at the front of the page's records
RECURSIVE PageRecords_Reversed(_, _)
PageRecords_Reversed(items, fandom) ==
    IF items = <<>> THEN <<>>
    ELSE PageRecords_Reversed(Tail(items), fandom)
            \o ParseWorkBlurb(Head(items), fandom).ret

\* the for-work-in-work_items loop: the records appended for one page
RECURSIVE PageRecords(_, _)
PageRecords(items, fandom) ==
    IF items = <<>> THEN <<>>
    ELSE ParseWorkBlurb(Head(items), fandom).ret \o PageRecords(Tail(items), fandom)

\* entry of search_fandom
EnterSearch(fandom, maxp) ==
    /\ spc' = "loop"
    /\ fandom_name' = fandom
    /\ max_pages' = maxp
    /\ page' = 1
    /\ works' = <<>>
    /\ response' = <<>>
    /\ requests' = <<>>
    /\ sleeps' = <<>>

LogEntry(p, t) ==
    [page |-> p, sent |-> t, received |-> -1, error |-> "none",
     failed |-> FALSE, status |-> 0, body |-> <<>>]

PushSent(t) == IF Len(sent) < 2 THEN Append(sent, t) ELSE <<sent[2], t>>

\* the last request of this call ended in the except clause
LastFetchFailed == requests # <<>> /\ requests[Len(requests)].failed

\* a loop over range(1, max_pages + 2)
SendRequest_Mut ==
    /\ spc = "loop"
    /\ page <= max_pages + 1
    /\ spc' = "get"
    /\ requests' = Append(requests, LogEntry(page, clock))
    /\ sent' = PushSent(clock)
    /\ UNCHANGED <<rate_limit, mainVars, fandom_name, max_pages, page, works,
                   response, sleeps, clock, extractVars>>

\* session.get(search_url, params) is dispatched for the next page
SendRequest ==
    /\ spc = "loop"
    /\ page <= max_pages
    /\ spc' = "get"
    /\ requests' = Append(requests, LogEntry(page, clock))
    /\ sent' = PushSent(clock)
    /\ UNCHANGED <<rate_limit, mainVars, fandom_name, max_pages, page, works,
                   response, sleeps, clock, extractVars>>

\* session.get returns or raises, then raise_for_status(); a failure goes
\* through the except clause: break, return works
ReceiveResponse(bodies, times) ==
    /\ spc = "get"
    /\ \E o \in Outcomes(bodies), d \in times :
          /\ clock' = clock + d
          /\ requests' = [requests EXCEPT ![Len(requests)] =
                             [@ EXCEPT !.received = clock + d,
                                       !.error = o.error,
                                       !.failed = FetchFails(o),
                                       !.status = o.status,
                                       !.body = o.body]]
          /\ IF FetchFails(o)
             THEN /\ spc' = "returned"
                  /\ response' = <<>>
             ELSE /\ spc' = "parse"
                  /\ response' = <<o>>
    /\ UNCHANGED <<rate_limit, mainVars, fandom_name, max_pages, page, works,
                   sleeps, sent, extractVars>>

\* works = [the records of this page] instead of works.append
ParsePage_Overwrite(times) ==
    /\ spc = "parse"
    /\ works' = PageRecords(response[1].body, fandom_name)
    /\ \E d \in times : clock' = clock + d
    /\ spc' = "sleep"
    /\ UNCHANGED <<rate_limit, mainVars, fandom_name, max_pages, page, response,
                   requests, sleeps, sent, extractVars>>

\* BeautifulSoup, find_all and the loop over the work items
ParsePage(times) ==
    /\ spc = "parse"
    /\ works' = works \o PageRecords(response[1].body, fandom_name)
    /\ \E d \in times : clock' = clock + d
    /\ spc' = "sleep"
    /\ UNCHANGED <<rate_limit, mainVars, fandom_name, max_pages, page, response,
                   requests, sleeps, sent, extractVars>>

\* a sleep of only what is left of rate_limit since the request was dispatched
RateLimitSleep_Mut ==
    LET elapsed == clock - requests[Len(requests)].sent
        wait == IF elapsed < rate_limit THEN rate_limit - elapsed ELSE 0
    IN  /\ spc = "sleep"
        /\ sleeps' = Append(sleeps, [page |-> page, start |-> clock,
                                     end |-> clock + wait])
        /\ clock' = clock + wait
        /\ page' = page + 1
        /\ response' = <<>>
        /\ spc' = "loop"
        /\ UNCHANGED <<rate_limit, mainVars, fandom_name, max_pages, works,
                       requests, sent, extractVars>>

\* time.sleep(self.rate_limit), then the next iteration
RateLimitSleep ==
    /\ spc = "sleep"
    /\ sleeps' = Append(sleeps, [page |-> page, start |-> clock,
                                 end |-> clock + rate_limit])
    /\ clock' = clock + rate_limit
    /\ page' = page + 1
    /\ response' = <<>>
    /\ spc' = "loop"
    /\ UNCHANGED <<rate_limit, mainVars, fandom_name, max_pages, works,
                   requests, sent, extractVars>>

\* a loop that expects one page more than range(1, max_pages + 1) gives
LoopExit_OneMore ==
    /\ spc = "loop"
    /\ page > max_pages + 1
    /\ spc' = "returned"
    /\ UNCHANGED <<rate_limit, mainVars, fandom_name, max_pages, page, works,
                   response, requests, sleeps, timeVars, extractVars>>

\* range(1, max_pages + 1) is exhausted: return works
LoopExit ==
    /\ spc = "loop"
    /\ page > max_pages
    /\ spc' = "returned"
    /\ UNCHANGED <<rate_limit, mainVars, fandom_name, max_pages, page, works,
                   response, requests, sleeps, timeVars, extractVars>>

(***************************************************************************)
(* AO3Scraper.save_to_csv, AO3Scraper.save_to_json                         *)
(***************************************************************************)
\* str(n) for n >= 0
RECURSIVE StrOfInt(_)
StrOfInt(n) ==
    LET digit == CASE n % 10 = 0 -> "0" [] n % 10 = 1 -> "1" [] n % 10 = 2 -> "2"
                   [] n % 10 = 3 -> "3" [] n % 10 = 4 -> "4" [] n % 10 = 5 -> "5"
                   [] n % 10 = 6 -> "6" [] n % 10 = 7 -> "7" [] n % 10 = 8 -> "8"
                   [] n % 10 = 9 -> "9"
    IN  IF n < 10 THEN <<digit>> ELSE Append(StrOfInt(n \div 10), digit)

IntKeys == {"words", "kudos", "bookmarks", "hits"}

\* the cell csv.writer writes for a value: str() of a number, the string itself
CsvCell(k, v) == IF k \in IntKeys THEN StrOfInt(v) ELSE v

\* DictWriter._dict_to_list: the row has a key that is not a fieldname
WrongFields(rowdict, keys) ==
    \E i \in 1..Len(rowdict) : \A j \in 1..Len(keys) : keys[j] # rowdict[i][1]

\* DictWriter._dict_to_list: rowdict.get(key, restval) for key in fieldnames
DictToList(rowdict, keys) ==
    [j \in 1..Len(keys) |->
        IF HasKey(rowdict, keys[j])
        THEN CsvCell(keys[j], DictGet(rowdict, keys[j]))
        ELSE <<>>]

\* index of the first row writerows rejects, Len(data) + 1 when there is none
FirstRejected(data, keys) ==
    IF \E i \in 1..Len(data) : WrongFields(data[i], keys)
    THEN CHOOSE i \in 1..Len(data) :
            /\ WrongFields(data[i], keys)
            /\ \A j \in 1..(i - 1) : ~WrongFields(data[j], keys)
    ELSE Len(data) + 1

\* the file save_to_csv leaves behind for a non-empty list: the header and the
\* rows written before writerows raised, if it did
CsvWritten(data) ==
    LET keys == DictKeys(data[1])
    IN  [header |-> keys,
         rows |-> [i \in 1..(FirstRejected(data, keys) - 1) |->
                      DictToList(data[i], keys)]]

\* save_to_csv raises ValueError out of writerows
CsvRaises(data) ==
    data # <<>> /\ FirstRejected(data, DictKeys(data[1])) <= Len(data)

(***************************************************************************)
(* main() of src/main.py, choice 1: the loop over the fandoms and the      *)
(* two saves.                                                              *)
(***************************************************************************)
\* works = scraper.search_fandom(fandom, max_pages=3) is entered
CallSearch ==
    /\ mpc = "loop"
    /\ idx <= NumTerms
    /\ mpc' = "call"
    /\ EnterSearch(fandoms[idx], MAIN_MAX_PAGES)
    /\ UNCHANGED <<rate_limit, idx, all_works, calls, csv_file, csv_outcome,
                   json_file, timeVars, extractVars>>

\* a loop over the fandoms that stops at the first fandom whose fetch failed
ExtendWorks_Mut ==
    /\ mpc = "call"
    /\ spc = "returned"
    /\ all_works' = all_works \o works
    /\ calls' = Append(calls, [fandom |-> fandom_name, works |-> works,
                               failed |-> LastFetchFailed])
    /\ idx' = IF LastFetchFailed THEN NumTerms + 1 ELSE idx + 1
    /\ mpc' = "loop"
    /\ spc' = "idle"
    /\ UNCHANGED <<rate_limit, csv_file, csv_outcome, json_file, fandom_name,
                   max_pages, page, works, response, requests, sleeps, timeVars,
                   extractVars>>

\* search_fandom returned: all_works.extend(works), next fandom
ExtendWorks ==
    /\ mpc = "call"
    /\ spc = "returned"
    /\ all_works' = all_works \o works
    /\ calls' = Append(calls, [fandom |-> fandom_name, works |-> works,
                               failed |-> LastFetchFailed])
    /\ idx' = idx + 1
    /\ mpc' = "loop"
    /\ spc' = "idle"
    /\ UNCHANGED <<rate_limit, csv_file, csv_outcome, json_file, fandom_name,
                   max_pages, page, works, response, requests, sleeps, timeVars,
                   extractVars>>

\* save_to_csv that opens the file before it looks at data
SaveToCsv_OpenFirst ==
    /\ mpc = "loop"
    /\ idx > NumTerms
    /\ IF all_works = <<>>
       THEN /\ csv_file' = <<[header |-> <<>>, rows |-> <<>>]>>
            /\ csv_outcome' = "no_data"
            /\ mpc' = "save_json"
       ELSE /\ csv_file' = <<CsvWritten(all_works)>>
            /\ csv_outcome' = IF CsvRaises(all_works) THEN "ValueError" ELSE "saved"
            /\ mpc' = IF CsvRaises(all_works) THEN "crashed" ELSE "save_json"
    /\ UNCHANGED <<rate_limit, idx, all_works, calls, json_file, searchVars,
                   timeVars, extractVars>>

\* scraper.save_to_csv(all_works, 'data/ao3_fanfictions.csv')
SaveToCsv ==
    /\ mpc = "loop"
    /\ idx > NumTerms
    /\ IF all_works = <<>>
       THEN /\ csv_file' = csv_file
            /\ csv_outcome' = "no_data"
            /\ mpc' = "save_json"
       ELSE /\ csv_file' = <<CsvWritten(all_works)>>
            /\ csv_outcome' = IF CsvRaises(all_works) THEN "ValueError" ELSE "saved"
            /\ mpc' = IF CsvRaises(all_works) THEN "crashed" ELSE "save_json"
    /\ UNCHANGED <<rate_limit, idx, all_works, calls, json_file, searchVars,
                   timeVars, extractVars>>

\* scraper.save_to_json(all_works, 'data/ao3_fanfictions.json')
SaveToJson ==
    /\ mpc = "save_json"
    /\ json_file' = <<all_works>>
    /\ mpc' = "done"
    /\ UNCHANGED <<rate_limit, idx, all_works, calls, csv_file, csv_outcome,
                   searchVars, timeVars, extractVars>>


(***************************************************************************)
(* Work elements the model feeds to the scraper.                           *)
(***************************************************************************)
MaxStatLen == 3        \* stat texts of up to MaxStatLen characters
MaxListLen == 11       \* up to MaxListLen tag / relationship / character elements
MaxSummaryLen == 202   \* summary texts of up to MaxSummaryLen characters

H_Works7 == <<"/", "w", "o", "r", "k", "s", "/", "7">>
H_Works8 == <<"/", "w", "o", "r", "k", "s", "/", "8">>
H_Works9Slash == <<"/", "w", "o", "r", "k", "s", "/", "9", "/">>

Link(text, href) == [text |-> text, href |-> href]
Heading(a) == <<[a |-> a]>>

BaseStats ==
    [language |-> <<<<"F", "r">>>>, words |-> <<<<"1", ",", "2", "3", "4">>>>,
     chapters |-> <<<<"2", "/", "?">>>>, kudos |-> <<<<" ", "5", "6", " ">>>>,
     bookmarks |-> <<<<"7">>>>, hits |-> <<<<"9", "0">>>>]

EmptyStats ==
    [language |-> <<>>, words |-> <<>>, chapters |-> <<>>, kudos |-> <<>>,
     bookmarks |-> <<>>, hits |-> <<>>]

BaseWork ==
    [heading |-> Heading(<<Link(<<"A", " ", "B">>, <<H_Works7>>)>>),
     author |-> <<<<"a", "u">>>>, rating |-> <<<<"G">>>>,
     warnings |-> <<<<"W">>>>, category |-> <<<<"M">>>>,
     fandoms |-> <<<<"S", "h">>>>,
     freeforms |-> <<<<"f", "1">>, <<" ", "f", "2">>>>,
     relationships |-> <<<<"r", "1">>>>,
     characters |-> <<<<"c", "2">>, <<"c", "1">>>>,
     stats |-> <<BaseStats>>,
     summary |-> <<<<"s", "u", "m">>>>]

\* an item with only the title link and bare defaults elsewhere
BareWork ==
    [heading |-> Heading(<<Link(<<"C">>, <<H_Works8>>)>>),
     author |-> <<>>, rating |-> <<>>, warnings |-> <<>>, category |-> <<>>,
     fandoms |-> <<>>, freeforms |-> <<>>, relationships |-> <<>>,
     characters |-> <<>>, stats |-> <<EmptyStats>>, summary |-> <<>>]

NoStatsWork == [BaseWork EXCEPT !.stats = <<>>,
                    !.heading = Heading(<<Link(<<"D">>, <<H_Works9Slash>>)>>)]
NoHeadingWork == [BaseWork EXCEPT !.heading = <<>>]
NoLinkWork == [BaseWork EXCEPT !.heading = Heading(<<>>)]
NoHrefWork == [BaseWork EXCEPT !.heading = Heading(<<Link(<<"E">>, <<>>)>>)]
BadStatWork == [BaseWork EXCEPT !.stats = <<[BaseStats EXCEPT
                                    !.kudos = <<<<"SUPERSCRIPT_TWO">>>>]>>]
EmptyTitleWork == [BareWork EXCEPT !.heading = Heading(<<Link(<<" ">>, <<<<>>>>)>>)]

\* all texts of at most n characters over an alphabet
RECURSIVE TextsUpTo(_, _)
TextsUpTo(alphabet, n) ==
    IF n = 0 THEN {<<>>}
    ELSE LET shorter == TextsUpTo(alphabet, n - 1)
         IN  shorter \cup {Append(t, c) : t \in shorter, c \in alphabet}

StatAlphabet == {"0", "1", ",", "-", "x", " ", "SUPERSCRIPT_TWO", "ARABIC_THREE"}
StatTexts == TextsUpTo(StatAlphabet, MaxStatLen) \cup {<<"1", ",", "2", "3", "4">>}
StatElems == {<<>>} \cup {<<t>> : t \in StatTexts}

TitleTexts == {<<>>, <<" ">>, <<"T">>, <<" ", "T", " ", "U", "\n">>}
Hrefs == {<<>>, <<<<>>>>, <<H_Works7>>, <<H_Works9Slash>>, <<<<"7">>>>, <<<<"/">>>>}

\* the i-th of the elements of a list, named in ascending or descending order
ElemText(kind, order, i) ==
    IF order = "asc" THEN <<kind>> \o StrOfInt(i)
    ELSE <<" ", kind>> \o StrOfInt(50 - i) \o <<" ">>
ElemList(kind, order, n) == [i \in 1..n |-> ElemText(kind, order, i)]

\* a summary text of n characters
SummaryText(n) ==
    [i \in 1..n |-> IF i % 7 = 0 THEN " " ELSE Head(StrOfInt(i % 10))]

Optionals == {<<>>, <<<<"x", "y">>>>}

TitleWorks ==
    {NoHeadingWork, NoLinkWork}
    \cup {[w EXCEPT !.heading = Heading(<<Link(t, h)>>)] :
             w \in {BaseWork, BareWork}, t \in TitleTexts, h \in Hrefs}

OptionalWorks ==
    {[BareWork EXCEPT !.author = a, !.rating = r, !.warnings = wa, !.category = c,
                      !.fandoms = f, !.summary = su, !.stats = st] :
        a \in Optionals, r \in Optionals, wa \in Optionals, c \in Optionals,
        f \in Optionals, su \in Optionals,
        st \in {<<>>, <<EmptyStats>>, <<BaseStats>>,
                <<[EmptyStats EXCEPT !.language = <<<<"D", "e">>>>]>>,
                <<[EmptyStats EXCEPT !.chapters = <<<<"3", "/", "3">>>>]>>}}

StatWorks ==
    {[BaseWork EXCEPT !.stats = <<[BaseStats EXCEPT !.words = e]>>] : e \in StatElems}
    \cup {[BaseWork EXCEPT !.stats = <<[BaseStats EXCEPT !.kudos = e]>>] : e \in StatElems}
    \cup {[BaseWork EXCEPT !.stats = <<[BaseStats EXCEPT !.bookmarks = e]>>] : e \in StatElems}
    \cup {[BaseWork EXCEPT !.stats = <<[BaseStats EXCEPT !.hits = e]>>] : e \in StatElems}

ListWorks ==
    {[BaseWork EXCEPT !.freeforms = ElemList("f", o, n)] :
        o \in {"asc", "desc"}, n \in 0..MaxListLen}
    \cup {[BaseWork EXCEPT !.relationships = ElemList("r", o, n)] :
        o \in {"asc", "desc"}, n \in 0..MaxListLen}
    \cup {[BaseWork EXCEPT !.characters = ElemList("c", o, n)] :
        o \in {"asc", "desc"}, n \in 0..MaxListLen}

SummaryWorks ==
    {[BaseWork EXCEPT !.summary = <<pad \o SummaryText(n) \o pad>>] :
        pad \in {<<>>, <<" ", "\n">>}, n \in 0..MaxSummaryLen}

ExtractWorks ==
    TitleWorks \cup OptionalWorks \cup StatWorks \cup ListWorks \cup SummaryWorks

\* the result pages a lone search_fandom call can be served
PageBodies ==
    {<<>>, <<BaseWork>>, <<NoHeadingWork, BareWork, NoLinkWork>>,
     <<NoStatsWork, NoHrefWork, BaseWork>>, <<BadStatWork>>}

\* the result pages main() can be served
MainBodies == {<<BaseWork>>, <<NoLinkWork, NoStatsWork>>}

\* how long a fetch and the parsing of a page can take
FetchTimes == 0..MaxFetchTime
ParseTimes == 0..MaxParseTime

\* in main(): every fetch takes MaxFetchTime, parsing is immediate
MainFetchTimes == {MaxFetchTime}
MainParseTimes == {0}

(***************************************************************************)
(* Specifications.                                                         *)
(***************************************************************************)
MainOff ==
    /\ mpc = "off"
    /\ idx = 1
    /\ all_works = <<>>
    /\ calls = <<>>
    /\ csv_file = <<>>
    /\ csv_outcome = "pending"
    /\ json_file = <<>>

SearchIdle ==
    /\ spc = "idle"
    /\ fandom_name = <<>>
    /\ max_pages = 0
    /\ page = 1
    /\ works = <<>>
    /\ response = <<>>
    /\ requests = <<>>
    /\ sleeps = <<>>

ExtractOff == work_element = <<>> /\ parsed = <<>>

\* the CSV file an earlier run left in data/
StaleCsv == [header |-> <<"title">>, rows |-> <<<<<<"o", "l", "d">>>>>>]

\* main(): scraper = AO3Scraper(rate_limit=5.0); all_works = []; the data
\* directory is empty or holds the CSV file of an earlier run
Init ==
    /\ rate_limit = RATE_LIMIT
    /\ mpc = "loop"
    /\ idx = 1
    /\ all_works = <<>>
    /\ calls = <<>>
    /\ csv_file \in {<<>>, <<StaleCsv>>}
    /\ csv_outcome = "pending"
    /\ json_file = <<>>
    /\ SearchIdle
    /\ clock = 0
    /\ sent = <<>>
    /\ ExtractOff

Next ==
    \/ CallSearch
    \/ SendRequest
    \/ ReceiveResponse(MainBodies, MainFetchTimes)
    \/ ParsePage(MainParseTimes)
    \/ RateLimitSleep
    \/ LoopExit
    \/ ExtendWorks
    \/ SaveToCsv
    \/ SaveToJson

Spec == Init /\ [][Next]_vars

\* one search_fandom(fandom_name, max_pages) call on a fresh scraper
SearchRateLimits == {0, RATE_LIMIT}

InitSearch ==
    /\ rate_limit \in SearchRateLimits
    /\ MainOff
    /\ spc = "loop"
    /\ fandom_name \in {F_Sherlock}
    /\ max_pages \in -1..MaxPagesArg
    /\ page = 1
    /\ works = <<>>
    /\ response = <<>>
    /\ requests = <<>>
    /\ sleeps = <<>>
    /\ clock = 0
    /\ sent = <<>>
    /\ ExtractOff

NextSearch ==
    \/ SendRequest
    \/ ReceiveResponse(PageBodies, FetchTimes)
    \/ ParsePage(ParseTimes)
    \/ RateLimitSleep
    \/ LoopExit

SpecSearch == InitSearch /\ [][NextSearch]_vars

\* one search_fandom call with the timing of main(): what the pages hold
\* varies, how long a fetch takes does not
InitPages ==
    /\ rate_limit \in SearchRateLimits
    /\ MainOff
    /\ spc = "loop"
    /\ fandom_name \in {F_Sherlock, F_StarTrek}
    /\ max_pages \in -1..MaxPagesArg
    /\ page = 1
    /\ works = <<>>
    /\ response = <<>>
    /\ requests = <<>>
    /\ sleeps = <<>>
    /\ clock = 0
    /\ sent = <<>>
    /\ ExtractOff

NextPages ==
    \/ SendRequest
    \/ ReceiveResponse(PageBodies, MainFetchTimes)
    \/ ParsePage(MainParseTimes)
    \/ RateLimitSleep
    \/ LoopExit

SpecPages == InitPages /\ [][NextPages]_vars

\* every request is answered or fails in the end, and the code between two
\* blocking calls runs on
SpecPagesFair == SpecPages /\ WF_vars(NextPages)

\* one _parse_work_blurb(work_element, fandom) call
InitExtract ==
    /\ rate_limit = RATE_LIMIT
    /\ MainOff
    /\ SearchIdle
    /\ clock = 0
    /\ sent = <<>>
    /\ work_element \in {<<w, f>> : w \in ExtractWorks, f \in {F_Sherlock, F_StarTrek}}
    /\ parsed = <<>>

ExtractRecord ==
    /\ work_element # <<>>
    /\ parsed = <<>>
    /\ parsed' = <<ParseWorkBlurb(work_element[1], work_element[2])>>
    /\ UNCHANGED <<rate_limit, mainVars, searchVars, timeVars, work_element>>

NextExtract == ExtractRecord

SpecExtract == InitExtract /\ [][NextExtract]_vars


(***************************************************************************)
(* Properties of search_fandom (SpecSearch) and of main() (Spec).          *)
(***************************************************************************)
Answered(r) == r.received >= 0

\* the records extracted from the first n requested pages
RECURSIVE RecordsOfPages(_)
RecordsOfPages(n) ==
    IF n = 0 THEN <<>>
    ELSE RecordsOfPages(n - 1) \o PageRecords(requests[n].body, fandom_name)

\* a failing fetch as the specification words it: transport error or a status
\* outside 200..299
NonSuccess(r) == Answered(r) /\ (r.error # "none" \/ r.status < 200 \/ r.status > 299)

\* a failing fetch as the except clause sees it: transport error or a status
\* in 400..599
ErrorStatus(r) == Answered(r) /\ (r.error # "none" \/ (r.status >= 400 /\ r.status <= 599))

FirstSuch(F(_), i) ==
    /\ i \in 1..Len(requests)
    /\ F(requests[i])
    /\ \A j \in 1..(i - 1) : ~F(requests[j])

\* what is promised once the first failing fetch is request i
StopsAt(i) ==
    /\ \A j \in 1..Len(requests) : requests[j].page <= requests[i].page
    /\ spc = "returned"
    /\ works = RecordsOfPages(i - 1)

\* C1 (as stated): if the first fetch that fails, by transport error or by a
\* non-2xx status, is on page p, then no page after p is requested, the call
\* has returned, and it returned exactly the records of pages 1..p-1.
C1_StopsAtFirstNon2xx ==
    \A i \in 1..Len(requests) : FirstSuch(NonSuccess, i) => StopsAt(i)

\* C1 (amended): the same, a failing fetch being a transport error or a
\* 4xx/5xx status; any other status is processed as a fetched page.
C1_StopsAtFirstErrorStatus ==
    /\ \A i \in 1..Len(requests) : FirstSuch(ErrorStatus, i) => StopsAt(i)
    /\ \A i \in 1..Len(requests) :
          (Answered(requests[i]) /\ ~ErrorStatus(requests[i]))
             => ~requests[i].failed

\* pages 1 and 2 gave records, page 3 failed, the call returned
C1_Witness ==
    /\ spc = "returned"
    /\ Len(requests) = 3
    /\ ErrorStatus(requests[3])
    /\ PageRecords(requests[1].body, fandom_name) # <<>>
    /\ PageRecords(requests[2].body, fandom_name) # <<>>
    /\ works = RecordsOfPages(2)

\* C2: a call issues at most max_pages requests (none when max_pages <= 0),
\* for the pages 1, 2, ..., k in this order, none of them twice.
C2_AtMostMaxPagesAscending ==
    /\ Len(requests) <= (IF max_pages > 0 THEN max_pages ELSE 0)
    /\ \A i \in 1..Len(requests) : requests[i].page = i
    /\ \A i, j \in 1..Len(requests) : i # j => requests[i].page # requests[j].page

\* a call that requested every page up to max_pages and returned
C2_Witness ==
    /\ spc = "returned"
    /\ max_pages >= 2
    /\ Len(requests) = max_pages
    /\ ~LastFetchFailed

\* C3: between two consecutive requests of a call lies a full sleep of
\* rate_limit that starts after the first request completed, so their
\* dispatch instants are at least rate_limit apart.
C3_FullWaitBetweenRequests ==
    \A i \in 1..(Len(requests) - 1) :
        /\ requests[i + 1].sent - requests[i].sent >= rate_limit
        /\ requests[i + 1].sent - requests[i].received >= rate_limit
        /\ \E k \in 1..Len(sleeps) :
              /\ sleeps[k].page = requests[i].page
              /\ sleeps[k].start >= requests[i].received
              /\ sleeps[k].end - sleeps[k].start = rate_limit
              /\ sleeps[k].end <= requests[i + 1].sent

\* a slow first request, slowly parsed, and the second one dispatched after it
C3_Witness ==
    /\ rate_limit = RATE_LIMIT
    /\ Len(requests) >= 2
    /\ requests[1].received > requests[1].sent
    /\ sleeps[1].start > requests[1].received
    /\ requests[2].sent - requests[1].sent > rate_limit

\* C4: when the call returns, every request it issued was followed by a
\* sleep: there are as many sleeps as requests, failed fetches included.
C4_SleepAfterEveryFetch ==
    spc = "returned" => Len(sleeps) = Len(requests)

\* C5: any two consecutive requests of the run, also across two fandoms, are
\* dispatched at least rate_limit apart.
C5_RateLimitAcrossTerms ==
    Len(sent) = 2 => sent[2] - sent[1] >= rate_limit

RECURSIVE ConcatWorks(_)
ConcatWorks(cs) ==
    IF cs = <<>> THEN <<>> ELSE ConcatWorks(SubSeq(cs, 1, Len(cs) - 1)) \o cs[Len(cs)].works

LoopOver == mpc \in {"save_csv", "save_json", "done", "crashed"} \/ (mpc = "loop" /\ idx > NumTerms)

\* C6: search_fandom is called once per fandom, in list order, whether or
\* not an earlier fandom ended on a failed fetch; the loop ends only after
\* the last fandom; all_works is the concatenation of the returned lists.
C6_FailureEndsOnlyItsTerm ==
    /\ Len(calls) = idx - 1
    /\ \A i \in 1..Len(calls) : calls[i].fandom = fandoms[i]
    /\ mpc = "call" => fandom_name = fandoms[idx]
    /\ LoopOver => Len(calls) = NumTerms
    /\ all_works = ConcatWorks(calls)

\* the first fandom failed after collecting records, a later one was scraped
C6_Witness ==
    /\ Len(calls) >= 2
    /\ calls[1].failed
    /\ calls[1].works # <<>>
    /\ calls[2].works # <<>>
    /\ all_works = calls[1].works \o calls[2].works


(***************************************************************************)
(* Properties of _parse_work_blurb (SpecExtract).                          *)
(***************************************************************************)
\* the call returned a record
Extracted == parsed # <<>> /\ parsed[1].ret # <<>>
TheWork == work_element[1]
TheTerm == work_element[2]
TheRecord == parsed[1].ret[1]

\* the title link is there and has a target: nothing required is missing
HasTitleAndTarget ==
    HasTitleLink(TheWork) /\ TheWork.heading[1].a[1].href # <<>>

\* the 18 fields of the record schema, in the order of the CSV header
SchemaFields ==
    <<"fandom_searched", "title", "work_id", "author", "rating", "warnings",
      "category", "fandoms", "tags", "relationships", "characters", "language",
      "words", "chapters", "kudos", "bookmarks", "hits", "summary">>

\* C7: every record the extractor returns has a non-empty title and a
\* non-empty work_id.
C7_TitleAndWorkIdNonEmpty ==
    Extracted =>
        /\ DictGet(TheRecord, "title") # <<>>
        /\ DictGet(TheRecord, "work_id") # <<>>

\* the default of a field applies exactly when its element is absent
DefaultWhenAbsent(key, elem, default) ==
    elem = <<>> => DictGet(TheRecord, key) = default

\* C8: an item with a title link and target always yields a record, whatever
\* optional markup is missing; the record has the 18 schema fields, each
\* absent optional one at its default.
C8_AllFieldsDefaulted ==
    (parsed # <<>> /\ HasTitleAndTarget
        /\ (TheWork.stats # <<>> =>
               /\ ~StatRaises(TheWork.stats[1].words)
               /\ ~StatRaises(TheWork.stats[1].kudos)
               /\ ~StatRaises(TheWork.stats[1].bookmarks)
               /\ ~StatRaises(TheWork.stats[1].hits)))
    => /\ Extracted
       /\ \A i \in 1..Len(SchemaFields) : HasKey(TheRecord, SchemaFields[i])
       /\ Len(TheRecord) = Len(SchemaFields)
       /\ DefaultWhenAbsent("author", TheWork.author, S_Anonymous)
       /\ DefaultWhenAbsent("fandoms", TheWork.fandoms, TheTerm)
       /\ DefaultWhenAbsent("summary", TheWork.summary, <<>>)
       /\ DictGet(TheRecord, "language") =
             (IF TheWork.stats # <<>> /\ TheWork.stats[1].language # <<>>
              THEN GetText(TheWork.stats[1].language[1]) ELSE S_English)
       /\ DictGet(TheRecord, "chapters") =
             (IF TheWork.stats # <<>> /\ TheWork.stats[1].chapters # <<>>
              THEN GetText(TheWork.stats[1].chapters[1]) ELSE S_OneOfOne)
       /\ \A k \in IntKeys :
             (TheWork.stats = <<>>) => DictGet(TheRecord, k) = 0

\* a stat text that is a decimal number once the ',' are removed
IsDecimalNumber(t) ==
    /\ t # <<>>
    /\ \A i \in 1..Len(t) : t[i] \in AsciiDigits \cup ForeignDecimalDigits

\* the value the lenient parse promises for a stat element
LenientValue(elem) ==
    IF elem = <<>> THEN 0
    ELSE IF IsDecimalNumber(RemoveCommas(GetText(elem[1])))
         THEN IntOf(RemoveCommas(GetText(elem[1])))
         ELSE 0

\* C9: for an item with a stats block, words, kudos, bookmarks and hits are
\* the number written in the stat text without its ',' when that is a
\* decimal number and 0 otherwise (missing, empty, signed, other
\* characters); they are never negative, and no stat text makes the
\* extraction fail.
C9_LenientStatParse ==
    (parsed # <<>> /\ HasTitleAndTarget /\ TheWork.stats # <<>>)
    => /\ Extracted
       /\ DictGet(TheRecord, "words") = LenientValue(TheWork.stats[1].words)
       /\ DictGet(TheRecord, "kudos") = LenientValue(TheWork.stats[1].kudos)
       /\ DictGet(TheRecord, "bookmarks") = LenientValue(TheWork.stats[1].bookmarks)
       /\ DictGet(TheRecord, "hits") = LenientValue(TheWork.stats[1].hits)
       /\ \A k \in IntKeys : DictGet(TheRecord, k) >= 0

\* the stripped texts of all the elements of a list, then its first n
AllTexts(elems) == [i \in 1..Len(elems) |-> GetText(elems[i])]
FirstN(seq, n) == SubSeq(seq, 1, IF Len(seq) <= n THEN Len(seq) ELSE n)

\* C10: tags, relationships and characters are the texts of the first 10, 5
\* and 10 elements of the item, in source order; summary is the first 200
\* characters of the summary text, '' without a summary.
C10_CappedInSourceOrder ==
    Extracted =>
        /\ DictGet(TheRecord, "tags") = Join(FirstN(AllTexts(TheWork.freeforms), 10))
        /\ DictGet(TheRecord, "relationships") =
              Join(FirstN(AllTexts(TheWork.relationships), 5))
        /\ DictGet(TheRecord, "characters") =
              Join(FirstN(AllTexts(TheWork.characters), 10))
        /\ DictGet(TheRecord, "summary") =
              (IF TheWork.summary = <<>> THEN <<>>
               ELSE FirstN(GetText(TheWork.summary[1]), 200))
        /\ Len(DictGet(TheRecord, "summary")) <= 200

\* a record of an item with more elements than a cap, or a summary text
\* longer than the cap
C10_Witness ==
    /\ Extracted
    /\ \/ Len(TheWork.freeforms) > 10
       \/ Len(TheWork.relationships) > 5
       \/ Len(TheWork.characters) > 10
       \/ (TheWork.summary # <<>> /\ Len(GetText(TheWork.summary[1])) > 200)


(***************************************************************************)
(* Skipped items, fandom_searched and the order of the returned list       *)
(* (SpecPages).                                                            *)
(***************************************************************************)
\* the number of requested pages whose items have been processed
PagesProcessed ==
    IF spc \in {"get", "parse"} THEN Len(requests) - 1 ELSE Len(requests)

\* the items of the processed pages, page after page
RECURSIVE ItemsOfPages(_)
ItemsOfPages(n) ==
    IF n = 0 THEN <<>> ELSE ItemsOfPages(n - 1) \o requests[n].body

\* the records of a list of items, one extraction per item
RECURSIVE RecordsOfItems(_)
RecordsOfItems(items) ==
    IF items = <<>> THEN <<>>
    ELSE ParseWorkBlurb(Head(items), fandom_name).ret \o RecordsOfItems(Tail(items))

Untitled(w) == ~HasTitleLink(w)
Titled(w) == HasTitleLink(w)

\* C11: an item without a title heading or without a title link gives no
\* record and no error, and the accumulator is what it would be had the
\* item not been on its page.
C11_UntitledItemSkipped ==
    LET items == ItemsOfPages(PagesProcessed)
    IN  /\ \A i \in 1..Len(items) :
              Untitled(items[i])
                 => ParseWorkBlurb(items[i], fandom_name)
                       = [ret |-> <<>>, error |-> "none"]
        /\ works = RecordsOfItems(SelectSeq(items, Titled))

\* a processed page that had an item without heading, one without link and
\* one that gave a record
C11_Witness ==
    /\ spc = "sleep"
    /\ \E i, j, k \in 1..Len(response[1].body) :
          /\ response[1].body[i].heading = <<>>
          /\ response[1].body[j].heading # <<>>
          /\ Untitled(response[1].body[j])
          /\ Titled(response[1].body[k])
    /\ Len(works) = 1

Raising(w) == ParseWorkBlurb(w, fandom_name).error # "none"
NotRaising(w) == ~Raising(w)

\* C12: an item whose extraction raises gives no record; the other items of
\* its page are extracted and appended, its page counts as fetched, is
\* followed by the sleep, and the pagination goes on to max_pages unless a
\* fetch fails.
C12_RaisingItemSkipped ==
    /\ LET items == ItemsOfPages(PagesProcessed)
       IN  /\ \A i \in 1..Len(items) :
                 Raising(items[i])
                    => ParseWorkBlurb(items[i], fandom_name).ret = <<>>
           /\ works = RecordsOfItems(SelectSeq(items, NotRaising))
    /\ \A j \in 1..PagesProcessed :
          (\E k \in 1..Len(requests[j].body) : Raising(requests[j].body[k]))
             => /\ ~requests[j].failed
                /\ (spc # "sleep" \/ j < Len(requests))
                      => \E n \in 1..Len(sleeps) : sleeps[n].page = requests[j].page
                /\ (spc = "returned" /\ ~LastFetchFailed)
                      => Len(requests) = max_pages

\* page 1 had a link without target between two good items, page 2 was
\* requested after it
C12_Witness ==
    /\ Len(requests) >= 2
    /\ Len(requests[1].body) = 3
    /\ ParseWorkBlurb(requests[1].body[2], fandom_name).error = "KeyError"
    /\ Len(works) >= 2
    /\ Len(sleeps) >= 1

\* C13: every record in the accumulator has fandom_searched equal to the
\* term of the call, whatever fandoms heading its item had.
C13_FandomSearchedIsTerm ==
    \A i \in 1..Len(works) :
        /\ HasKey(works[i], "fandom_searched")
        /\ DictGet(works[i], "fandom_searched") = fandom_name

\* a returned list with a record whose item named another fandom and a
\* record whose item named none
C13_Witness ==
    /\ spc = "returned"
    /\ \E i, j \in 1..Len(works) :
          /\ DictGet(works[i], "fandoms") # fandom_name
          /\ DictGet(works[j], "fandoms") = fandom_name


(***************************************************************************)
(* The sinks and the life of a record (Spec).                              *)
(***************************************************************************)
CsvCalled == csv_outcome # "pending"

\* C14: for a non-empty list the CSV file has the 18 schema fields as its
\* header, in the fixed order, and one row per record.
C14_HeaderIsSchema ==
    (CsvCalled /\ all_works # <<>>)
    => /\ csv_file # <<>>
       /\ csv_file[1].header = SchemaFields
       /\ Len(csv_file[1].rows) = Len(all_works)

\* C15 (as stated): given zero records the CSV write fails with an
\* EmptyInputError that reaches the caller.
C15_EmptyInputErrorRaised ==
    (CsvCalled /\ all_works = <<>>) => csv_outcome = "EmptyInputError"

\* C15 (amended): given zero records save_to_csv prints a message and
\* returns normally, the CSV file is neither created nor overwritten, and
\* main() goes on to the JSON write, which dumps the empty list.
C15_NoDataReturnsNormally ==
    [][/\ (mpc = "loop" /\ idx > NumTerms /\ all_works = <<>>)
            => /\ csv_outcome' = "no_data"
               /\ csv_file' = csv_file
               /\ mpc' = "save_json"
               /\ all_works' = <<>>
       /\ (mpc = "save_json" /\ all_works = <<>>)
            => /\ json_file' = <<<<>>>>
               /\ csv_file' = csv_file
               /\ csv_outcome' = "no_data"
               /\ mpc' = "done"]_vars

\* a run without records that ended, the CSV file of the earlier run intact
C15_Witness ==
    /\ mpc = "done"
    /\ all_works = <<>>
    /\ csv_outcome = "no_data"
    /\ csv_file = <<StaleCsv>>
    /\ json_file = <<<<>>>>

IsPrefix(a, b) == Len(a) <= Len(b) /\ SubSeq(b, 1, Len(a)) = a

\* C16: the accumulators only grow at their end, a page adds at most one
\* record per item, all_works takes the returned lists as they are, and a
\* sink is given all_works as collected and leaves it unchanged.
C16_RecordsNeverMutated ==
    [][/\ IsPrefix(all_works, all_works')
       /\ (spc = "idle" /\ spc' = "loop") \/ IsPrefix(works, works')
       /\ spc = "parse" => Len(works') - Len(works) <= Len(response[1].body)
       /\ (mpc = "call" /\ mpc' = "loop") => all_works' = all_works \o works
       /\ json_file' # json_file
            => /\ json_file' = <<ConcatWorks(calls)>>
               /\ all_works' = all_works
       /\ csv_outcome' # csv_outcome
            => /\ all_works = ConcatWorks(calls)
               /\ all_works' = all_works]_vars

\* a finished run that collected records and wrote both files
C16_Witness ==
    /\ mpc = "done"
    /\ Len(all_works) >= 3
    /\ csv_outcome = "saved"
    /\ json_file = <<all_works>>

\* C19: save_to_csv of a non-empty list returns normally and writes a row
\* for every record, also when records with and without the stats fields
\* are mixed.
C19_CsvWritesEveryRecord ==
    (CsvCalled /\ all_works # <<>>)
    => /\ csv_outcome = "saved"
       /\ \A i \in 1..Len(all_works) :
             /\ i <= Len(csv_file[1].rows)
             /\ csv_file[1].rows[i] = DictToList(all_works[i], csv_file[1].header)

(***************************************************************************)
(* Termination (SpecPagesFair) and order of the result (SpecPages).        *)
(***************************************************************************)
\* C17: the call returns, and it has then requested all of the pages
\* 1..max_pages or stopped at the first failed fetch.
C17_Terminates ==
    /\ <>(spc = "returned")
    /\ [](spc = "returned" =>
            /\ \A j \in 1..(Len(requests) - 1) : ~requests[j].failed
            /\ LastFetchFailed \/ Len(requests) = (IF max_pages > 0 THEN max_pages ELSE 0)
            /\ works = RecordsOfItems(ItemsOfPages(Len(requests))))

\* a call that returned at a failed fetch after a page with skipped items
C17_Witness ==
    /\ spc = "returned"
    /\ LastFetchFailed
    /\ Len(requests) >= 2
    /\ Len(requests) < max_pages
    /\ \E k \in 1..Len(requests[1].body) : Raising(requests[1].body[k])

\* the <<page index, item index>> of the items that gave a record, from
\* item k of page j on, resp. of the first n pages
RECURSIVE OriginsInPage(_, _)
OriginsInPage(j, k) ==
    IF k > Len(requests[j].body) THEN <<>>
    ELSE (IF ParseWorkBlurb(requests[j].body[k], fandom_name).ret # <<>>
          THEN <<<<j, k>>>> ELSE <<>>) \o OriginsInPage(j, k + 1)

RECURSIVE Origins(_)
Origins(n) == IF n = 0 THEN <<>> ELSE Origins(n - 1) \o OriginsInPage(n, 1)

\* C18: the accumulator holds one record per item that gave one, of pages
\* that were fetched, ordered by page and then by position in the page.
C18_OrderedByPageThenItem ==
    LET o == Origins(PagesProcessed)
    IN  /\ Len(works) = Len(o)
        /\ \A i \in 1..Len(o) :
              /\ ~requests[o[i][1]].failed
              /\ works[i] = ParseWorkBlurb(requests[o[i][1]].body[o[i][2]],
                                           fandom_name).ret[1]
        /\ \A i, j \in 1..Len(o) :
              i < j => \/ requests[o[i][1]].page < requests[o[j][1]].page
                       \/ (o[i][1] = o[j][1] /\ o[i][2] < o[j][2])

\* two different records of page 1 around a skipped item, then one of page 2
C18_Witness ==
    /\ spc = "returned"
    /\ Len(requests) >= 2
    /\ Len(requests[1].body) = 3
    /\ Len(works) >= 3
    /\ works[1] # works[2]

====
